---- MODULE Spec2Model ----
(***************************************************************************)
(* Model of the search console front end: the Home view (page.tsx), the    *)
(* search request (lib/api), and the ResultsTable component with its       *)
(* client-side filter and pagination.                                      *)
(*                                                                         *)
(* Strings are sequences of one-character strings, so that toLowerCase,    *)
(* trim and includes are computed and not assumed.                         *)
(***************************************************************************)
EXTENDS Integers, Sequences, FiniteSets, TLC

VARIABLES
    searchFields,   \* Home: the 7 search inputs
    searchMode,     \* Home: "AND" | "OR"
    results,        \* Home: SearchResult[]
    loading,        \* Home: boolean
    error,          \* Home: string | null
    searchStats,    \* Home: the 6 statistics
    filterText,     \* Home: the refine string
    currentPage,    \* ResultsTable: 1-based page (1 while the table is unmounted)
    inflight,       \* requests handed to searchAPI and not yet settled
    copiedId,       \* ResultsTable: the row marked as copied, or null
    timers,         \* ResultsTable: the setTimeout callbacks not yet run, oldest first
    clipboardWrites,\* navigator.clipboard.writeText calls not yet settled
    copyErrors,     \* the console.error lines of the two copy handlers
    attempt         \* history: the last Search click and what became of it

homeVars == <<searchFields, searchMode, results, loading, error, searchStats, filterText>>
copyVars == <<copiedId, timers, clipboardWrites, copyErrors>>
progVars == <<searchFields, searchMode, results, loading, error, searchStats, filterText,
              currentPage, inflight, copiedId, timers, clipboardWrites, copyErrors>>
vars == <<searchFields, searchMode, results, loading, error, searchStats, filterText,
          currentPage, inflight, copiedId, timers, clipboardWrites, copyErrors, attempt>>

---------------------------------------------------------------------------
(* Bounds of the model *)

\* how many of the 7 inputs the model edits (the code treats all keys alike)
MaxKeys == 1
\* the largest result set a response carries
MaxRows == 250
\* goToPage is tried with every page in 0 .. total pages + PageSlack
PageSlack == 1

\* the rows of a page whose Copy button the model presses
MaxCopyRows == 2
\* clipboard writes and copied-marker timers outstanding together
MaxCopies == 2
\* console.error lines of the copy handlers that are kept
MaxCopyErrors == 1

(* Program constants *)
RESULTS_PER_PAGE == 100
\* the delay of the timer that clears the copied marker
COPIED_MS == 2000

NULL == "null"

\* copiedId when no row is marked (null), in the shape of a row id
NoRow == [master_id |-> <<>>, mobile |-> <<>>, index |-> -1]

---------------------------------------------------------------------------
(* Strings *)

LowerTable ==
    ("A" :> "a") @@ ("B" :> "b") @@ ("C" :> "c") @@ ("D" :> "d") @@ ("E" :> "e") @@
    ("F" :> "f") @@ ("G" :> "g") @@ ("H" :> "h") @@ ("I" :> "i") @@ ("J" :> "j") @@
    ("K" :> "k") @@ ("L" :> "l") @@ ("M" :> "m") @@ ("N" :> "n") @@ ("O" :> "o") @@
    ("P" :> "p") @@ ("Q" :> "q") @@ ("R" :> "r") @@ ("S" :> "s") @@ ("T" :> "t") @@
    ("U" :> "u") @@ ("V" :> "v") @@ ("W" :> "w") @@ ("X" :> "x") @@ ("Y" :> "y") @@
    ("Z" :> "z")

UpperChars == DOMAIN LowerTable

\* String.prototype.toLowerCase
toLowerCase(s) ==
    [i \in 1..Len(s) |-> IF s[i] \in UpperChars THEN LowerTable[s[i]] ELSE s[i]]

\* String.prototype.includes: t occurs in s at some offset
includes(s, t) ==
    \E i \in 0..(Len(s) - Len(t)) : SubSeq(s, i + 1, i + Len(t)) = t

WhiteSpace == {" ", "\t", "\n"}

RECURSIVE trimStart(_)
trimStart(s) ==
    IF s # <<>> /\ Head(s) \in WhiteSpace THEN trimStart(Tail(s)) ELSE s

RECURSIVE trimEnd(_)
trimEnd(s) ==
    IF s # <<>> /\ s[Len(s)] \in WhiteSpace THEN trimEnd(SubSeq(s, 1, Len(s) - 1)) ELSE s

\* String.prototype.trim
trim(s) == trimEnd(trimStart(s))

---------------------------------------------------------------------------
(* Home state *)

\* Object.entries order of SearchFields
FieldOrder == <<"master_id", "name", "fname", "alt", "email", "address", "mobile">>
FieldKeys == {FieldOrder[i] : i \in 1..Len(FieldOrder)}

EmptyFields == [k \in FieldKeys |-> <<>>]

ZeroStats ==
    [totalMatches |-> 0, resultsReturned |-> 0, totalTime |-> 0,
     queryParseTime |-> 0, searchExecutionTime |-> 0, documentRetrievalTime |-> 0]

---------------------------------------------------------------------------
(* What the search service may answer *)

RECURSIVE Digits(_)
Digits(n) ==
    LET d == <<"0", "1", "2", "3", "4", "5", "6", "7", "8", "9">>
    IN  IF n < 10 THEN <<d[n + 1]>> ELSE Append(Digits(n \div 10), d[(n % 10) + 1])

\* the i-th row the service returns: unique master_id, the other fields by turns
Row(i) ==
    CASE i % 3 = 1 ->
           [master_id |-> Digits(i), name |-> <<"A", "l">>, fname |-> <<>>,
            mobile |-> <<"9">>, alt |-> <<>>,
            email |-> <<"a", "@", "b", ".", "c", "o", "m">>, address |-> <<>>]
      [] i % 3 = 2 ->
           [master_id |-> Digits(i), name |-> <<"B", "o">>, fname |-> <<"A", "L">>,
            mobile |-> <<"9", "1">>, alt |-> <<"7", "7">>,
            email |-> <<>>, address |-> <<"M", "G", " ", "R", "d">>]
      [] OTHER ->
           [master_id |-> Digits(i), name |-> <<"C", "y">>, fname |-> <<"D", "i">>,
            mobile |-> <<"8">>, alt |-> <<>>,
            email |-> <<"c", "@", "d", ".", "i", "o">>, address |-> <<"x">>]

Rows(n) == [i \in 1..n |-> Row(i)]

\* a SearchResponse with n rows
Response(n) ==
    [results |-> Rows(n), total_matches |-> n + 7, results_returned |-> n,
     query_parse_time_ms |-> 1, search_execution_time_ms |-> 2,
     document_retrieval_time_ms |-> 3, total_time_ms |-> 6]

\* sizes around the page boundaries
BoundarySizes ==
    {n \in 0..MaxRows : n % 50 \in {0, 1, 49}}

\* the responses the running application is given
Responses == {Response(n) : n \in {0, 1, RESULTS_PER_PAGE + 1, MaxRows}}

\* what the request throws: a network error or a non-2xx status (both Error objects)
Failures ==
    {[isError |-> TRUE, message |-> "Network Error"],
     [isError |-> TRUE, message |-> "Request failed with status code 500"]}

\* what the user can type into a search input
FieldInputs == {<<>>, <<" ">>, <<" ", "a", " ">>}

\* what the user can type into the refine box
FilterInputs ==
    {<<>>, <<"A", "@", "B">>, <<"a", "l">>, <<"z", "z">>, <<"G", " ", "r">>, <<"7">>}

EditableKeys == {FieldOrder[i] : i \in 1..MaxKeys}

\* what the 7 inputs may hold when Search is clicked
FormInputs == FieldInputs \cup {<<"\t", "a", " ", "b", "\n">>}

---------------------------------------------------------------------------
(* ResultsTable: the derived values of one render *)

\* the row test with the fields compared as they are (no toLowerCase on them)
RowMatchesCaseSensitive(result, searchText) ==
    \/ includes(result.master_id, searchText)
    \/ includes(result.name, searchText)
    \/ includes(result.fname, searchText)
    \/ includes(result.mobile, searchText)
    \/ includes(result.alt, searchText)
    \/ includes(result.email, searchText)
    \/ includes(result.address, searchText)

\* one row passes when the lowercased filter occurs in one of its 7 fields
RowMatches(result, searchText) ==
    \/ includes(toLowerCase(result.master_id), searchText)
    \/ includes(toLowerCase(result.name), searchText)
    \/ includes(toLowerCase(result.fname), searchText)
    \/ includes(toLowerCase(result.mobile), searchText)
    \/ includes(toLowerCase(result.alt), searchText)
    \/ includes(toLowerCase(result.email), searchText)
    \/ includes(toLowerCase(result.address), searchText)

\* the filter as a hand-written loop that stops one row early
filteredResultsStopsEarly(res, f) ==
    IF f = <<>>
    THEN res
    ELSE LET searchText == toLowerCase(f)
         IN  SelectSeq(SubSeq(res, 1, Len(res) - 1),
                       LAMBDA result : RowMatches(result, searchText))

\* the filter with an empty list returned for the empty filter
filteredResultsEmptyForNoFilter(res, f) ==
    IF f = <<>>
    THEN <<>>
    ELSE LET searchText == toLowerCase(f)
         IN  SelectSeq(res, LAMBDA result : RowMatches(result, searchText))

filteredResults(res, f) ==
    IF f = <<>>
    THEN res
    ELSE LET searchText == toLowerCase(f)
         IN  SelectSeq(res, LAMBDA result : RowMatches(result, searchText))

\* Math.floor in the place of Math.ceil
MathFloorDiv(a, b) == a \div b

\* Math.ceil(a / b) for a >= 0, b > 0
MathCeilDiv(a, b) == IF a % b = 0 THEN a \div b ELSE (a \div b) + 1

totalPages(res, f) == MathCeilDiv(Len(filteredResults(res, f)), RESULTS_PER_PAGE)

startIndex(page) == (page - 1) * RESULTS_PER_PAGE
\* the end of the page one row short
endIndexOneShort(page) == startIndex(page) + RESULTS_PER_PAGE - 1

endIndex(page) == startIndex(page) + RESULTS_PER_PAGE

\* Array.prototype.slice(start, end): negative indexes count from the end, both clamped
slice(s, start, end) ==
    LET n == Len(s)
        from == IF start < 0 THEN (IF n + start < 0 THEN 0 ELSE n + start)
                ELSE (IF start > n THEN n ELSE start)
        to == IF end < 0 THEN (IF n + end < 0 THEN 0 ELSE n + end)
              ELSE (IF end > n THEN n ELSE end)
    IN  SubSeq(s, from + 1, to)

paginatedResults(res, f, page) ==
    slice(filteredResults(res, f), startIndex(page), endIndex(page))

---------------------------------------------------------------------------
(* Home: what is rendered *)

\* the RefineResults box and the ResultsTable are rendered
TableShown(isLoading, res) == ~isLoading /\ Len(res) > 0

\* the render without the page reset on a changed filter
PageAfterRenderKeepsPage(isLoading, res, f) ==
    IF TableShown(loading, results) /\ TableShown(isLoading, res)
    THEN currentPage
    ELSE 1

\* currentPage after a render: useState(1) on mount, 1 again when the filter prop
\* changed, kept otherwise
PageAfterRender(isLoading, res, f) ==
    IF /\ TableShown(loading, results)
       /\ TableShown(isLoading, res)
       /\ f = filterText
    THEN currentPage
    ELSE 1

\* the copy state of the table after a render: kept while the table stays mounted;
\* a table that is unmounted loses copiedId, and the timers and clipboard
\* continuations of the lost instance no longer act on any state
CopyStateAfterRender(isLoading, res) ==
    IF TableShown(loading, results) /\ TableShown(isLoading, res)
    THEN UNCHANGED <<copiedId, timers, clipboardWrites, copyErrors>>
    ELSE /\ copiedId' = NoRow
         /\ timers' = <<>>
         /\ clipboardWrites' = <<>>
         /\ UNCHANGED copyErrors

---------------------------------------------------------------------------
(* History of the last Search click, kept for the properties only:          *)
(* ev is "pending" from an accepted click until its request settles, then   *)
(* "ok" or "failed"; any other user action in between ends the record.      *)
(* Reset leaves ev "reset", or "pendingReset" when it falls between an      *)
(* accepted click and the settling of its request, which then leaves        *)
(* "okAfterReset"; both carry what the state was when Reset was pressed.    *)
(* A timer of the table that fires leaves ev "timer", the row it was set    *)
(* for and the marker it cleared.                                           *)

NoAttempt == [ev |-> "none", rejected |-> FALSE]

Snapshot ==
    [searchFields |-> searchFields, searchMode |-> searchMode, results |-> results,
     searchStats |-> searchStats, filterText |-> filterText, currentPage |-> currentPage]

---------------------------------------------------------------------------
(* Home: handlers *)

Init ==
    /\ searchFields = EmptyFields
    /\ searchMode = "AND"
    /\ results = <<>>
    /\ loading = FALSE
    /\ error = NULL
    /\ searchStats = ZeroStats
    /\ filterText = <<>>
    /\ currentPage = 1
    /\ inflight = <<>>
    /\ copiedId = NoRow
    /\ timers = <<>>
    /\ clipboardWrites = <<>>
    /\ copyErrors = <<>>
    /\ attempt = NoAttempt

\* the request body with the inputs sent as typed: `if (value) payload[key] = value`
PayloadUntrimmed ==
    [k \in {"filter"} \cup {key \in FieldKeys : searchFields[key] # <<>>} |->
        IF k = "filter" THEN searchMode ELSE searchFields[k]]

\* the request body: the combinator, and each input that is not blank, trimmed
Payload ==
    [k \in {"filter"} \cup {key \in FieldKeys : trim(searchFields[key]) # <<>>} |->
        IF k = "filter" THEN searchMode ELSE trim(searchFields[k])]

StatsOf(response) ==
    [totalMatches |-> response.total_matches,
     resultsReturned |-> response.results_returned,
     totalTime |-> response.total_time_ms,
     queryParseTime |-> response.query_parse_time_ms,
     searchExecutionTime |-> response.search_execution_time_ms,
     documentRetrievalTime |-> response.document_retrieval_time_ms]

ErrorMessage(err) ==
    IF err.isError THEN err.message ELSE "Search failed. Please try again."

\* handleSearch without its `if (loading) return`
HandleSearchUnguarded ==
    /\ loading' = TRUE
    /\ error' = NULL
    /\ inflight' = Append(inflight, Payload)
    /\ currentPage' = PageAfterRender(TRUE, results, filterText)
    /\ CopyStateAfterRender(TRUE, results)
    /\ attempt' = [ev |-> "pending", rejected |-> FALSE, pre |-> Snapshot]
    /\ UNCHANGED <<searchFields, searchMode, results, searchStats, filterText>>

\* handleSearch up to its await: the click on Search
HandleSearch ==
    IF loading
    THEN /\ UNCHANGED progVars
         /\ attempt' = [attempt EXCEPT !.rejected = TRUE]
    ELSE /\ loading' = TRUE
         /\ error' = NULL
         /\ inflight' = Append(inflight, Payload)
         /\ currentPage' = PageAfterRender(TRUE, results, filterText)
         /\ CopyStateAfterRender(TRUE, results)
         /\ attempt' = [ev |-> "pending", rejected |-> FALSE, pre |-> Snapshot]
         /\ UNCHANGED <<searchFields, searchMode, results, searchStats, filterText>>

\* handleSearch after its await, the request fulfilled with `response`
SearchSucceeds(response) ==
    /\ inflight # <<>>
    /\ inflight' = Tail(inflight)
    /\ results' = response.results
    /\ searchStats' = StatsOf(response)
    /\ loading' = FALSE
    /\ currentPage' = PageAfterRender(FALSE, response.results, filterText)
    /\ CopyStateAfterRender(FALSE, response.results)
    /\ attempt' = CASE attempt.ev = "pending" ->
                         [ev |-> "ok", rejected |-> FALSE, pre |-> attempt.pre,
                          rows |-> response.results]
                    [] attempt.ev = "pendingReset" ->
                         [ev |-> "okAfterReset", rejected |-> FALSE, pre |-> attempt.pre,
                          rows |-> response.results, stats |-> StatsOf(response),
                          request |-> Head(inflight)]
                    [] OTHER -> NoAttempt
    /\ UNCHANGED <<searchFields, searchMode, error, filterText>>

\* the rejected request handled without the `finally`: loading stays set
SearchFailsKeepsLoading(err) ==
    /\ inflight # <<>>
    /\ inflight' = Tail(inflight)
    /\ error' = ErrorMessage(err)
    /\ UNCHANGED <<loading, currentPage, copyVars>>
    /\ attempt' = NoAttempt
    /\ UNCHANGED <<searchFields, searchMode, results, searchStats, filterText>>

\* handleSearch after its await, the request rejected with `err`
SearchFails(err) ==
    /\ inflight # <<>>
    /\ inflight' = Tail(inflight)
    /\ error' = ErrorMessage(err)
    /\ loading' = FALSE
    /\ currentPage' = PageAfterRender(FALSE, results, filterText)
    /\ CopyStateAfterRender(FALSE, results)
    /\ attempt' = IF attempt.ev = "pending"
                  THEN [ev |-> "failed", rejected |-> FALSE, pre |-> attempt.pre,
                        message |-> ErrorMessage(err)]
                  ELSE NoAttempt
    /\ UNCHANGED <<searchFields, searchMode, results, searchStats, filterText>>

\* what the state was when Reset was pressed
ResetRecord ==
    LET was == [mode |-> searchMode, wasLoading |-> loading,
                hadRows |-> results # <<>>, hadFields |-> searchFields # EmptyFields,
                hadFilter |-> filterText # <<>>]
    IN  IF attempt.ev = "pending"
        THEN [ev |-> "pendingReset", rejected |-> FALSE, pre |-> attempt.pre, was |-> was]
        ELSE [ev |-> "reset", rejected |-> FALSE, was |-> was]

\* handleReset that also drops the outstanding request and the loading flag
HandleResetCancels ==
    /\ searchFields' = EmptyFields
    /\ results' = <<>>
    /\ filterText' = <<>>
    /\ error' = NULL
    /\ searchStats' = ZeroStats
    /\ currentPage' = PageAfterRender(loading, <<>>, <<>>)
    /\ CopyStateAfterRender(loading, <<>>)
    /\ attempt' = ResetRecord
    /\ loading' = FALSE
    /\ inflight' = <<>>
    /\ UNCHANGED searchMode

\* handleReset that also puts the search mode back to AND
HandleResetAlsoMode ==
    /\ searchFields' = EmptyFields
    /\ results' = <<>>
    /\ filterText' = <<>>
    /\ error' = NULL
    /\ searchStats' = ZeroStats
    /\ currentPage' = PageAfterRender(loading, <<>>, <<>>)
    /\ CopyStateAfterRender(loading, <<>>)
    /\ attempt' = ResetRecord
    /\ searchMode' = "AND"
    /\ UNCHANGED <<loading, inflight>>

\* handleReset: the Reset button, which is never disabled
HandleReset ==
    /\ searchFields' = EmptyFields
    /\ results' = <<>>
    /\ filterText' = <<>>
    /\ error' = NULL
    /\ searchStats' = ZeroStats
    /\ currentPage' = PageAfterRender(loading, <<>>, <<>>)
    /\ CopyStateAfterRender(loading, <<>>)
    /\ attempt' = ResetRecord
    /\ UNCHANGED <<searchMode, loading, inflight>>

\* SearchForm.updateField
UpdateField(key, value) ==
    /\ searchFields' = [searchFields EXCEPT ![key] = value]
    /\ attempt' = NoAttempt
    /\ UNCHANGED <<searchMode, results, loading, error, searchStats, filterText,
                   currentPage, inflight, copyVars>>

\* SearchForm: the AND / OR buttons
SetSearchMode(mode) ==
    /\ searchMode' = mode
    /\ attempt' = NoAttempt
    /\ UNCHANGED <<searchFields, results, loading, error, searchStats, filterText,
                   currentPage, inflight, copyVars>>

\* typing into either filter box (both are rendered with the table only)
OnFilterChange(text) ==
    /\ TableShown(loading, results)
    /\ filterText' = text
    /\ currentPage' = PageAfterRender(loading, results, text)
    /\ attempt' = NoAttempt
    /\ UNCHANGED <<searchFields, searchMode, results, loading, error, searchStats,
                   inflight, copyVars>>

---------------------------------------------------------------------------
(* ResultsTable: handlers *)

\* goToPage with its upper guard off by one
goToPageOffByOne(page) ==
    /\ TableShown(loading, results)
    /\ IF page >= 1 /\ page <= totalPages(results, filterText) + 1
       THEN currentPage' = page
       ELSE currentPage' = currentPage
    /\ attempt' = NoAttempt
    /\ UNCHANGED <<homeVars, inflight, copyVars>>

\* goToPage without its lower guard
goToPageNoLowerGuard(page) ==
    /\ TableShown(loading, results)
    /\ IF page <= totalPages(results, filterText)
       THEN currentPage' = page
       ELSE currentPage' = currentPage
    /\ attempt' = NoAttempt
    /\ UNCHANGED <<homeVars, inflight, copyVars>>

goToPage(page) ==
    /\ TableShown(loading, results)
    /\ IF page >= 1 /\ page <= totalPages(results, filterText)
       THEN currentPage' = page
       ELSE currentPage' = currentPage
    /\ attempt' = NoAttempt
    /\ UNCHANGED <<homeVars, inflight, copyVars>>

\* the id of the index-th row (from 1) of the visible page:
\* `${master_id}-${mobile}-${startIndex + index}`, index from 0
rowId(index) ==
    LET result == paginatedResults(results, filterText, currentPage)[index]
    IN  [master_id |-> result.master_id, mobile |-> result.mobile,
         index |-> startIndex(currentPage) + (index - 1)]

\* the Copy buttons the model presses
CopyRowArgs ==
    {i \in 1..MaxCopyRows : i <= Len(paginatedResults(results, filterText, currentPage))}

\* s without its k-th element
RemoveAt(s, k) == SubSeq(s, 1, k - 1) \o SubSeq(s, k + 1, Len(s))

\* copyToClipboard up to its await: the click on a row's Copy button, which is
\* disabled while the row is the copied one
CopyRow(index) ==
    /\ TableShown(loading, results)
    /\ copiedId # rowId(index)
    /\ Len(clipboardWrites) + Len(timers) < MaxCopies
    /\ clipboardWrites' = Append(clipboardWrites, [kind |-> "row", id |-> rowId(index)])
    /\ attempt' = NoAttempt
    /\ UNCHANGED <<homeVars, currentPage, inflight, copiedId, timers, copyErrors>>

\* copyAllResults up to its await
CopyAll ==
    /\ TableShown(loading, results)
    /\ Len(clipboardWrites) + Len(timers) < MaxCopies
    /\ clipboardWrites' = Append(clipboardWrites, [kind |-> "all", id |-> NoRow])
    /\ attempt' = NoAttempt
    /\ UNCHANGED <<homeVars, currentPage, inflight, copiedId, timers, copyErrors>>

\* either copy handler after its await, the k-th outstanding write fulfilled
ClipboardResolves(k) ==
    /\ k \in 1..Len(clipboardWrites)
    /\ clipboardWrites' = RemoveAt(clipboardWrites, k)
    /\ IF clipboardWrites[k].kind = "row"
       THEN /\ copiedId' = clipboardWrites[k].id
            /\ timers' = Append(timers, [id |-> clipboardWrites[k].id, ms |-> COPIED_MS])
       ELSE UNCHANGED <<copiedId, timers>>
    /\ attempt' = NoAttempt
    /\ UNCHANGED <<homeVars, currentPage, inflight, copyErrors>>

\* a rejected write that marks the row all the same (setCopiedId before the await)
ClipboardRejectsMarksCopied(k) ==
    /\ k \in 1..Len(clipboardWrites)
    /\ Len(copyErrors) < MaxCopyErrors
    /\ clipboardWrites' = RemoveAt(clipboardWrites, k)
    /\ copyErrors' = Append(copyErrors, IF clipboardWrites[k].kind = "row"
                                        THEN "Failed to copy:"
                                        ELSE "Failed to copy all:")
    /\ copiedId' = IF clipboardWrites[k].kind = "row"
                   THEN clipboardWrites[k].id ELSE copiedId
    /\ attempt' = NoAttempt
    /\ UNCHANGED <<homeVars, currentPage, inflight, timers>>

\* either copy handler after its await, the k-th outstanding write rejected
ClipboardRejects(k) ==
    /\ k \in 1..Len(clipboardWrites)
    /\ Len(copyErrors) < MaxCopyErrors
    /\ clipboardWrites' = RemoveAt(clipboardWrites, k)
    /\ copyErrors' = Append(copyErrors, IF clipboardWrites[k].kind = "row"
                                        THEN "Failed to copy:"
                                        ELSE "Failed to copy all:")
    /\ attempt' = NoAttempt
    /\ UNCHANGED <<homeVars, currentPage, inflight, copiedId, timers>>

\* a timer that clears the marker only of the row it was set for
TimerFiresForOwnRow ==
    /\ timers # <<>>
    /\ timers' = Tail(timers)
    /\ copiedId' = IF copiedId = timers[1].id THEN NoRow ELSE copiedId
    /\ attempt' = [ev |-> "timer", rejected |-> FALSE, setFor |-> timers[1].id,
                   cleared |-> copiedId]
    /\ UNCHANGED <<homeVars, currentPage, inflight, clipboardWrites, copyErrors>>

\* the oldest timer runs its callback: () => setCopiedId(null)
TimerFires ==
    /\ timers # <<>>
    /\ timers' = Tail(timers)
    /\ copiedId' = NoRow
    /\ attempt' = [ev |-> "timer", rejected |-> FALSE, setFor |-> timers[1].id,
                   cleared |-> copiedId]
    /\ UNCHANGED <<homeVars, currentPage, inflight, clipboardWrites, copyErrors>>

\* the pages goToPage is tried with
PageArgs == (1 - PageSlack)..(totalPages(results, filterText) + PageSlack)

---------------------------------------------------------------------------
(* C1: one request at most *)

\* C1: at most one search request is outstanding at any time, the loading flag is
\* set exactly while one is, a request is only ever issued from the idle state, and
\* a Search click taken while loading changes nothing.
C1_SingleOutstandingRequest ==
    /\ [](Len(inflight) <= 1 /\ (loading <=> Len(inflight) = 1))
    /\ [][Len(inflight') > Len(inflight) => (~loading /\ inflight = <<>>)]_vars
    /\ [][attempt'.rejected => UNCHANGED progVars]_vars

\* a Search click was refused while a request is outstanding
C1_Witness == attempt.rejected /\ loading /\ Len(inflight) = 1

---------------------------------------------------------------------------
(* C2: a failed search *)

\* C2: after a search request fails, the error message is displayed, the loading
\* flag is cleared, and the search fields, search mode, result set, statistics,
\* filter string and current page are what they were before the attempt.
C2_FailureLeavesStateAsBefore ==
    attempt.ev = "failed" =>
        /\ error = attempt.message
        /\ error # NULL
        /\ ~loading
        /\ searchFields = attempt.pre.searchFields
        /\ searchMode = attempt.pre.searchMode
        /\ results = attempt.pre.results
        /\ searchStats = attempt.pre.searchStats
        /\ filterText = attempt.pre.filterText
        /\ currentPage = attempt.pre.currentPage

---------------------------------------------------------------------------
(* C3: the page reset *)

\* C3: whenever the filter string changes or the result set is replaced, the
\* current page is 1 afterwards, whatever it was before.
C3_PageResetOnFilterOrResults ==
    [][(filterText' # filterText \/ results' # results) => currentPage' = 1]_vars

\* a new result set was loaded over a table that stood on a later page
C3_Witness ==
    /\ attempt.ev = "ok"
    /\ attempt.pre.currentPage > 1
    /\ TableShown(loading, results)
    /\ currentPage = 1

---------------------------------------------------------------------------
(* C4: goToPage *)

\* C4: goToPage(p) with p <= 0 or p > total pages leaves the current page (and
\* everything else) unchanged; with 1 <= p <= total pages it sets the current page
\* to p and changes nothing else.
C4_GoToPageGuard ==
    [][\A p \in PageArgs :
          goToPage(p) =>
              /\ UNCHANGED <<homeVars, inflight>>
              /\ IF p <= 0 \/ p > totalPages(results, filterText)
                 THEN currentPage' = currentPage
                 ELSE currentPage' = p]_vars

\* the table stands on its last page, which is not the first
C4_Witness ==
    /\ TableShown(loading, results)
    /\ currentPage >= 2
    /\ currentPage = totalPages(results, filterText)

---------------------------------------------------------------------------
(* C5, C6: pages *)

Min(a, b) == IF a < b THEN a ELSE b

RECURSIVE PagesUpTo(_, _, _)
\* the visible slices of pages 1..p, one after the other
PagesUpTo(res, f, p) ==
    IF p = 0 THEN <<>> ELSE PagesUpTo(res, f, p - 1) \o paginatedResults(res, f, p)

\* C5: the visible slices of pages 1..total pages, concatenated in order, are the
\* filtered sequence, and page p is its part [(p-1)*100, p*100) clamped to its length.
C5_PagesPartitionFiltered ==
    LET F == filteredResults(results, filterText)
        tp == totalPages(results, filterText)
    IN  /\ PagesUpTo(results, filterText, tp) = F
        /\ \A p \in 1..tp :
              LET lo == (p - 1) * 100
                  hi == Min(p * 100, Len(F))
              IN  paginatedResults(results, filterText, p) =
                      [i \in 1..(hi - lo) |-> F[lo + i]]

\* the table stands on the short last page of three
C5_Witness ==
    /\ TableShown(loading, results)
    /\ totalPages(results, filterText) = 3
    /\ currentPage = 3
    /\ Len(paginatedResults(results, filterText, currentPage)) \in 1..99

\* C6 as claimed: total pages is ceil(filtered count / 100) and at least 1, also
\* for the empty filtered sequence of a displayed table.
C6_TotalPagesAtLeastOne ==
    TableShown(loading, results) =>
        LET n == Len(filteredResults(results, filterText))
            tp == totalPages(results, filterText)
        IN  /\ tp >= 1
            /\ tp * 100 >= n
            /\ (tp = 1 \/ (tp - 1) * 100 < n)

\* C6 as amended: total pages is ceil(filtered count / 100), the least k >= 0 with
\* k * 100 >= count, which is 0 for the empty filtered sequence; 250 rows under the
\* empty filter give 3 pages, page 1 of 100 rows and page 3 of 50.
C6_TotalPagesIsCeil ==
    LET n == Len(filteredResults(results, filterText))
        tp == totalPages(results, filterText)
    IN  /\ tp >= 0
        /\ tp * 100 >= n
        /\ (tp = 0 \/ (tp - 1) * 100 < n)
        /\ (n = 0 <=> tp = 0)
        /\ (n = 250 /\ filterText = <<>> =>
               /\ tp = 3
               /\ Len(paginatedResults(results, filterText, 1)) = 100
               /\ Len(paginatedResults(results, filterText, 3)) = 50)

\* a displayed table whose filter leaves no row: total pages is 0
C6_Witness ==
    /\ TableShown(loading, results)
    /\ filteredResults(results, filterText) = <<>>
    /\ totalPages(results, filterText) = 0

---------------------------------------------------------------------------
(* C7, C8, C9: the filter *)

\* t occurs in s: s = pre \o t \o post
Occurs(t, s) ==
    \E a \in 0..Len(s) :
        /\ a + Len(t) <= Len(s)
        /\ \A k \in 1..Len(t) : s[a + k] = t[k]

\* the row has a field in which the filter occurs, both lowercased
Passes(row, f) ==
    \E key \in FieldKeys : Occurs(toLowerCase(f), toLowerCase(row[key]))

\* the rows of res that pass f, in the order of res: the k-th of them is the row
\* at the k-th smallest passing index
Passing(res, f) ==
    LET idx == {i \in 1..Len(res) : Passes(res[i], f)}
    IN  [k \in 1..Cardinality(idx) |->
            res[CHOOSE i \in idx : Cardinality({j \in idx : j < i}) = k - 1]]

\* each letter in the other case
SwapCase(s) ==
    [i \in 1..Len(s) |->
        IF s[i] \in UpperChars THEN LowerTable[s[i]]
        ELSE IF \E u \in UpperChars : LowerTable[u] = s[i]
             THEN CHOOSE u \in UpperChars : LowerTable[u] = s[i]
             ELSE s[i]]

\* C7: the filtered sequence is the sub-sequence of the result set, in its order,
\* of the rows in which the lowercased filter occurs in one of the 7 lowercased
\* fields; the same filter in the other case gives the same sequence.
C7_FilterIsCaseInsensitiveSubsequence ==
    /\ filteredResults(results, filterText) = Passing(results, filterText)
    /\ filteredResults(results, SwapCase(filterText)) =
           filteredResults(results, filterText)
    /\ filteredResults(results, toLowerCase(filterText)) =
           filteredResults(results, filterText)

\* the one row with email a@b.com is displayed under the filter A@B
C7_Witness ==
    /\ TableShown(loading, results)
    /\ Len(results) = 1
    /\ results[1].email = <<"a", "@", "b", ".", "c", "o", "m">>
    /\ filterText = <<"A", "@", "B">>
    /\ filteredResults(results, filterText) = results

\* C8: filtering the filtered sequence by the same filter gives it again.
C8_FilterIdempotent ==
    LET F == filteredResults(results, filterText)
    IN  filteredResults(F, filterText) = F

\* a filter that keeps some rows of the displayed table and drops others
C8_Witness ==
    /\ TableShown(loading, results)
    /\ filterText # <<>>
    /\ Len(filteredResults(results, filterText)) \in 1..(Len(results) - 1)

\* C9: the empty filter returns the result set unchanged: same rows, order, length.
C9_EmptyFilterIsIdentity ==
    /\ filteredResults(results, <<>>) = results
    /\ Len(filteredResults(results, <<>>)) = Len(results)
    /\ (filterText = <<>> =>
           \A i \in 1..Len(results) :
               filteredResults(results, filterText)[i] = results[i])

\* the largest result set displayed under the empty filter
C9_Witness ==
    /\ TableShown(loading, results)
    /\ filterText = <<>>
    /\ Len(results) = MaxRows
    /\ Len(filteredResults(results, filterText)) = MaxRows

---------------------------------------------------------------------------
(* C10: what a new search carries over *)

\* C10: after a new search completes, the result set is the new response's rows,
\* and the filter string and the page are those of a fresh view.
C10_NothingCarriedAcrossSearches ==
    attempt.ev = "ok" =>
        /\ results = attempt.rows
        /\ filterText = <<>>
        /\ currentPage = 1

---------------------------------------------------------------------------
(* C11: the request body *)

IsBlank(s) == \A i \in 1..Len(s) : s[i] \in WhiteSpace

\* s from its first to its last character that is not white space
Core(s) ==
    LET solid == {i \in 1..Len(s) : s[i] \notin WhiteSpace}
        first == CHOOSE i \in solid : \A j \in solid : i <= j
        last == CHOOSE i \in solid : \A j \in solid : j <= i
    IN  IF solid = {} THEN <<>> ELSE [i \in 1..(last - first + 1) |-> s[first + i - 1]]

\* C11: the request of an accepted Search click carries the combinator equal to the
\* search mode, and carries a search field exactly when its value is not blank,
\* with the value stripped of leading and trailing white space.
C11_RequestCarriesTrimmedFields ==
    attempt.ev = "pending" =>
        LET request == inflight[1]
            fields == attempt.pre.searchFields
        IN  /\ Len(inflight) = 1
            /\ "filter" \in DOMAIN request
            /\ request["filter"] = attempt.pre.searchMode
            /\ DOMAIN request \ {"filter"} = {k \in FieldKeys : ~IsBlank(fields[k])}
            /\ \A k \in DOMAIN request \ {"filter"} :
                   /\ request[k] = Core(fields[k])
                   /\ request[k] # <<>>

\* a request in OR mode sent with a blank input left out and a padded one trimmed
C11_Witness ==
    /\ attempt.ev = "pending"
    /\ attempt.pre.searchMode = "OR"
    /\ attempt.pre.searchFields["name"] = <<" ">>
    /\ attempt.pre.searchFields["email"] = <<" ", "a", " ">>
    /\ attempt.pre.searchFields["mobile"] = <<"\t", "a", " ", "b", "\n">>
    /\ DOMAIN inflight[1] = {"filter", "email", "mobile"}
    /\ inflight[1]["mobile"] = <<"a", " ", "b">>

---------------------------------------------------------------------------
(* C12, C16: the copy buttons *)

\* C12: a rejected clipboard write, of one row or of all, adds one console.error
\* line and changes nothing else: no error message is displayed, and the copied
\* marker, its timers, the page, the filter and the result set stay as they were.
C12_ClipboardFailureIgnored ==
    /\ [][\A k \in 1..Len(clipboardWrites) :
            ClipboardRejects(k) =>
                /\ Len(copyErrors') = Len(copyErrors) + 1
                /\ error' = error
                /\ copiedId' = copiedId
                /\ timers' = timers
                /\ currentPage' = currentPage
                /\ filterText' = filterText
                /\ results' = results]_vars
    /\ [][copyErrors' # copyErrors =>
            /\ Len(clipboardWrites') = Len(clipboardWrites) - 1
            /\ UNCHANGED <<homeVars, currentPage, copiedId, timers, inflight>>]_vars
    /\ [](error = NULL)

\* a row copy has failed while another row is marked as copied
C12_Witness ==
    /\ TableShown(loading, results)
    /\ copyErrors = <<"Failed to copy:">>
    /\ copiedId # NoRow
    /\ error = NULL

\* C16: a fulfilled row copy marks its row as copied and adds its own 2-second
\* timer behind those pending; a timer that fires (the oldest) clears the marker
\* whatever row it marks, also the marker of a row copied after the timer was set.
C16_EveryTimerClearsTheMarker ==
    /\ [][\A k \in 1..Len(clipboardWrites) :
            (ClipboardResolves(k) /\ clipboardWrites[k].kind = "row") =>
                /\ copiedId' = clipboardWrites[k].id
                /\ timers' = timers \o <<[id |-> clipboardWrites[k].id, ms |-> 2000]>>]_vars
    /\ [][Len(timers') > Len(timers) =>
            /\ Len(timers') = Len(timers) + 1
            /\ copiedId' = timers'[Len(timers')].id
            /\ copiedId' # NoRow]_vars
    /\ [][Len(timers') < Len(timers) =>
            /\ timers' = Tail(timers)
            /\ copiedId' = NoRow]_vars

\* the marker is cleared while the timer of the row copied last is still pending:
\* it was cleared by the timer of an earlier copy
C16_Witness ==
    /\ TableShown(loading, results)
    /\ attempt.ev = "timer"
    /\ attempt.cleared # NoRow
    /\ attempt.cleared # attempt.setFor
    /\ copiedId = NoRow
    /\ Len(timers) = 1
    /\ timers[1].id = attempt.cleared

---------------------------------------------------------------------------
(* C13, C17: Reset *)

\* the request body the claim expects for the given inputs and mode
ExpectedRequest(fields, mode) ==
    [k \in {"filter"} \cup {key \in FieldKeys : ~IsBlank(fields[key])} |->
        IF k = "filter" THEN mode ELSE Core(fields[k])]

\* C13: Reset pressed while a search is outstanding does not cancel it: the request
\* stays outstanding with the field values and mode of the click, over the reset
\* (empty) state; when it then succeeds, the rows and statistics of the response
\* are installed over the reset state.
C13_ResetDoesNotCancelSearch ==
    /\ attempt.ev = "pendingReset" =>
           /\ loading
           /\ Len(inflight) = 1
           /\ DOMAIN inflight[1] =
                  DOMAIN ExpectedRequest(attempt.pre.searchFields, attempt.pre.searchMode)
           /\ inflight[1] =
                  ExpectedRequest(attempt.pre.searchFields, attempt.pre.searchMode)
           /\ searchFields = EmptyFields
           /\ results = <<>>
           /\ searchStats = ZeroStats
    /\ attempt.ev = "okAfterReset" =>
           /\ ~loading
           /\ inflight = <<>>
           /\ attempt.request =
                  ExpectedRequest(attempt.pre.searchFields, attempt.pre.searchMode)
           /\ results = attempt.rows
           /\ searchStats = attempt.stats
           /\ searchFields = EmptyFields
           /\ filterText = <<>>
           /\ error = NULL

\* rows installed over a reset form, the request sent with an input since cleared
C13_Witness ==
    /\ attempt.ev = "okAfterReset"
    /\ attempt.pre.searchFields # EmptyFields
    /\ attempt.request # ExpectedRequest(searchFields, searchMode)
    /\ searchFields = EmptyFields
    /\ Len(results) > 1
    /\ searchStats.resultsReturned = Len(results)

\* C17: Reset puts the 7 search fields, the result set, the filter string, the
\* error message and the statistics back to their initial values and leaves the
\* search mode and the loading flag as they were.
C17_ResetRestoresInitialValues ==
    attempt.ev \in {"reset", "pendingReset"} =>
        /\ searchFields = [k \in FieldKeys |-> <<>>]
        /\ results = <<>>
        /\ filterText = <<>>
        /\ error = "null"
        /\ \A k \in DOMAIN searchStats : searchStats[k] = 0
        /\ searchMode = attempt.was.mode
        /\ loading = attempt.was.wasLoading

\* Reset pressed in OR mode, during a search, over rows, a filled input and a filter
C17_Witness ==
    /\ attempt.ev = "reset"
    /\ attempt.was.hadRows
    /\ attempt.was.hadFields
    /\ attempt.was.hadFilter
    /\ attempt.was.wasLoading
    /\ loading
    /\ searchMode = "OR"

---------------------------------------------------------------------------
(* C14: the page stays in range *)

\* C14: whenever the results table is displayed, the current page p satisfies
\* 1 <= p <= max(1, total pages), and the visible slice is non-empty whenever the
\* filtered sequence is.
C14_PageWithinRange ==
    TableShown(loading, results) =>
        LET F == filteredResults(results, filterText)
            tp == totalPages(results, filterText)
        IN  /\ 1 <= currentPage
            /\ currentPage <= (IF tp < 1 THEN 1 ELSE tp)
            /\ (F # <<>> => paginatedResults(results, filterText, currentPage) # <<>>)

\* the last of two pages of a filtered table
C14_Witness ==
    /\ TableShown(loading, results)
    /\ filterText # <<>>
    /\ currentPage = 2
    /\ totalPages(results, filterText) = 2
    /\ paginatedResults(results, filterText, currentPage) # <<>>

---------------------------------------------------------------------------
(* C15: the loading flag *)

\* C15: the loading flag is set exactly while a request is outstanding, from the
\* accepted click to the settling of its request, and, the request settling, every
\* accepted Search click is followed by a state with the flag cleared.
C15_LoadingClearedWhenRequestSettles ==
    /\ [](loading <=> inflight # <<>>)
    /\ [][(~loading /\ loading') => Len(inflight') = Len(inflight) + 1]_vars
    /\ [][(loading /\ ~loading') => Len(inflight') = Len(inflight) - 1]_vars
    /\ (loading ~> ~loading)

\* a search has failed and the flag is cleared
C15_Witness ==
    /\ attempt.ev = "failed"
    /\ ~loading
    /\ inflight = <<>>
    /\ error # NULL

---------------------------------------------------------------------------
(* The application *)

Next ==
    \/ HandleSearch
    \/ \E response \in Responses : SearchSucceeds(response)
    \/ \E err \in Failures : SearchFails(err)
    \/ HandleReset
    \/ \E key \in EditableKeys, value \in FieldInputs : UpdateField(key, value)
    \/ \E mode \in {"AND", "OR"} : SetSearchMode(mode)
    \/ \E text \in FilterInputs : OnFilterChange(text)
    \/ \E page \in PageArgs : goToPage(page)

Spec == Init /\ [][Next]_vars

\* the request handed to searchAPI settles: it is fulfilled or rejected
Settle ==
    \/ \E response \in Responses : SearchSucceeds(response)
    \/ \E err \in Failures : SearchFails(err)

\* the application, every outstanding request settling in the end
SpecFair == Spec /\ WF_vars(Settle)

(* The results table alone, over every result set around the page boundaries:  *)
(* the state of Home after a search that returned n rows, with any filter.     *)

InitTable ==
    /\ \E n \in BoundarySizes :
          /\ results = Response(n).results
          /\ searchStats = StatsOf(Response(n))
    /\ filterText \in FilterInputs
    /\ searchFields = EmptyFields
    /\ searchMode = "AND"
    /\ loading = FALSE
    /\ error = NULL
    /\ currentPage = 1
    /\ inflight = <<>>
    /\ copiedId = NoRow
    /\ timers = <<>>
    /\ clipboardWrites = <<>>
    /\ copyErrors = <<>>
    /\ attempt = NoAttempt

NextTable ==
    \/ \E text \in FilterInputs : OnFilterChange(text)
    \/ \E page \in PageArgs : goToPage(page)

SpecTable == InitTable /\ [][NextTable]_vars

(* The search form alone: Search clicked with any contents of the 7 inputs and *)
(* either mode, the request then failing.                                      *)

InitForm ==
    /\ searchFields \in [FieldKeys -> FormInputs]
    /\ searchMode \in {"AND", "OR"}
    /\ results = <<>>
    /\ loading = FALSE
    /\ error = NULL
    /\ searchStats = ZeroStats
    /\ filterText = <<>>
    /\ currentPage = 1
    /\ inflight = <<>>
    /\ copiedId = NoRow
    /\ timers = <<>>
    /\ clipboardWrites = <<>>
    /\ copyErrors = <<>>
    /\ attempt = NoAttempt

NextForm ==
    \/ HandleSearch
    \/ \E err \in Failures : SearchFails(err)

SpecForm == InitForm /\ [][NextForm]_vars

(* The results table with its copy buttons, mounted over a result set of one   *)
(* page or of two.                                                             *)

CopySizes == {1, RESULTS_PER_PAGE + 1}
CopyFilters == {<<>>, <<"a", "l">>}

InitCopy ==
    /\ \E n \in CopySizes :
          /\ results = Response(n).results
          /\ searchStats = StatsOf(Response(n))
    /\ filterText = <<>>
    /\ searchFields = EmptyFields
    /\ searchMode = "AND"
    /\ loading = FALSE
    /\ error = NULL
    /\ currentPage = 1
    /\ inflight = <<>>
    /\ copiedId = NoRow
    /\ timers = <<>>
    /\ clipboardWrites = <<>>
    /\ copyErrors = <<>>
    /\ attempt = NoAttempt

NextCopy ==
    \/ \E index \in CopyRowArgs : CopyRow(index)
    \/ CopyAll
    \/ \E k \in 1..Len(clipboardWrites) : ClipboardResolves(k)
    \/ \E k \in 1..Len(clipboardWrites) : ClipboardRejects(k)
    \/ TimerFires
    \/ \E text \in CopyFilters : OnFilterChange(text)
    \/ \E page \in PageArgs : goToPage(page)

SpecCopy == InitCopy /\ [][NextCopy]_vars

====
